---- MODULE Spec2Model ----
(***************************************************************************)
(* Model of generate_docs.py: the DOCX walk (build_docx), the PDF walk     *)
(* (build_pdf), the calendar workbook (build_calendar_xlsx) and main.      *)
(*                                                                         *)
(* A Python str is a sequence of one-character strings.  A library object  *)
(* (python-docx paragraph, reportlab flowable) is the record               *)
(* [style, text, items]: its style name, its text and, for a ListFlowable, *)
(* the texts of its ListItems.                                             *)
(***************************************************************************)
EXTENDS Integers, Sequences, FiniteSets, TLC

VARIABLES
    spec,       \* the DocSpec handed to the running (or last) render call
    pc,         \* where control is
    si,         \* index of the next section of the for loop over spec.sections
    doc,        \* paragraphs of the python-docx Document under construction
    story,      \* the reportlab story list under construction
    exc,        \* the exception that ended the last call ("" when none)
    dirExists,  \* whether OUT_DIR exists
    fs,         \* files of OUT_DIR: path -> [state, body]
    writes,     \* path -> number of times the run wrote the file
    pre,        \* fs as it was when the running render call was entered
    called,     \* the render functions already called on spec by the caller
    fn,         \* the function that runs, or ran last
    specs,      \* main: the list build_specs() returned
    mi,         \* main: index into specs of the for loop
    stdout,     \* lines printed so far
    wb,         \* the openpyxl Workbook: sequence of sheets
    workers     \* render calls run side by side: the frame (position, locals) of each

vars == <<spec, pc, si, doc, story, exc, dirExists, fs, writes, pre,
          called, fn, specs, mi, stdout, wb, workers>>

-----------------------------------------------------------------------------
(* Bounds of the model *)

\* longest authoring stream (section, subsection and item marks) of an input document
MaxTokens == 4

\* most render calls whose write to OUT_DIR fails, when the calls run side by side
MaxFaults == 1

-----------------------------------------------------------------------------
(* Python str operations, on sequences of characters *)

BULLETS == <<"B","U","L","L","E","T","S",":">>
NUMBERED == <<"N","U","M","B","E","R","E","D",":">>
BULLET_DOT == <<"*"," ">>      \* the two characters U+2022 and space
ONE_PAREN == <<"1",")"," ">>
ONE_DOT == <<"1","."," ">>

\* s.startswith(p)
startswith(s, p) == Len(s) >= Len(p) /\ SubSeq(s, 1, Len(p)) = p

\* s[n:]
DropFirst(s, n) == SubSeq(s, n + 1, Len(s))

\* replace that removes a leading occurrence only
replaceLeading(s, old) == IF startswith(s, old) THEN DropFirst(s, Len(old)) ELSE s

RECURSIVE replace(_, _)
\* s.replace(old, ""): every non-overlapping occurrence, left to right
replace(s, old) ==
    IF Len(s) < Len(old) THEN s
    ELSE IF startswith(s, old) THEN replace(DropFirst(s, Len(old)), old)
    ELSE <<Head(s)>> \o replace(Tail(s), old)

RECURSIVE SplitFrom(_, _, _)
SplitFrom(s, sep, cur) ==
    IF s = <<>> THEN <<cur>>
    ELSE IF Head(s) = sep THEN <<cur>> \o SplitFrom(Tail(s), sep, <<>>)
    ELSE SplitFrom(Tail(s), sep, Append(cur, Head(s)))

\* s.split(sep) for a one-character sep: always at least one segment
split(s, sep) == SplitFrom(s, sep, <<>>)

RECURSIVE lstrip(_)
lstrip(s) == IF s # <<>> /\ Head(s) = " " THEN lstrip(Tail(s)) ELSE s

RECURSIVE rstrip(_)
rstrip(s) ==
    IF s # <<>> /\ s[Len(s)] = " " THEN rstrip(SubSeq(s, 1, Len(s) - 1)) ELSE s

\* s.strip()
strip(s) == rstrip(lstrip(s))

RECURSIVE StripNonBlank(_)
\* [x.strip() for x in segs if x.strip()]
StripNonBlank(segs) ==
    IF segs = <<>> THEN <<>>
    ELSE (IF strip(Head(segs)) # <<>> THEN <<strip(Head(segs))>> ELSE <<>>)
         \o StripNonBlank(Tail(segs))

\* [x.strip() for x in para.replace(tag, "").split("|") if x.strip()]
DecodeList(para, tag) == StripNonBlank(split(replace(para, tag), "|"))

-----------------------------------------------------------------------------
(* Library objects *)

OUT_DIR == "out"

\* one paragraph / flowable
Elem(style, text) == [style |-> style, text |-> text, items |-> <<>>]

\* ListFlowable([ListItem(Paragraph(b, Body)) for b in bullets], bulletType="bullet")
ListFlowable(bullets) == [style |-> "ListFlowable:bullet", text |-> <<>>, items |-> bullets]

\* an element of a section's content list: a str, or a (subheading, paras) tuple
Str(s) == [kind |-> "str", s |-> s, sub |-> <<>>, paras |-> <<>>]
Tup(sub, paras) == [kind |-> "tuple", s |-> <<>>, sub |-> sub, paras |-> paras]

\* what a loop over content returns: the objects appended, and the exception raised
Ok(elems) == [elems |-> elems, exc |-> ""]
Raise(elems, e) == [elems |-> elems, exc |-> e]

\* `for sub, paras in content` unpacks each element: a tuple gives its two parts, a
\* str of two characters gives its two characters, any other str raises ValueError
CanUnpack(el) == el.kind = "tuple" \/ Len(el.s) = 2
UnpackSub(el) == IF el.kind = "tuple" THEN el.sub ELSE <<el.s[1]>>
UnpackParas(el) == IF el.kind = "tuple" THEN el.paras ELSE << <<el.s[2]>> >>

-----------------------------------------------------------------------------
(* build_docx *)

RECURSIVE docx_add_bullets(_)
docx_add_bullets(bullets) ==
    IF bullets = <<>> THEN <<>>
    ELSE <<Elem("List Bullet", Head(bullets))>> \o docx_add_bullets(Tail(bullets))

RECURSIVE docx_add_numbered(_)
docx_add_numbered(items) ==
    IF items = <<>> THEN <<>>
    ELSE <<Elem("List Number", Head(items))>> \o docx_add_numbered(Tail(items))

\* title paragraph, subtitle paragraph, spacer
docx_add_title(title, subtitle) ==
    <<Elem("Normal", title)>>
    \o (IF subtitle # <<>> THEN <<Elem("Normal", subtitle)>> ELSE <<>>)
    \o <<Elem("Normal", <<>>)>>

DOCX_SUBTITLE == <<"D","O","C","X">>

\* one paragraph item of a subsection (lines 111-116)
DocxSubPara(para) ==
    IF startswith(para, BULLET_DOT) THEN docx_add_bullets(<<DropFirst(para, 2)>>)
    ELSE IF startswith(para, ONE_PAREN) \/ startswith(para, ONE_DOT)
         THEN <<Elem("Normal", para)>>
    ELSE <<Elem("Normal", para)>>

RECURSIVE DocxSubParas(_)
DocxSubParas(paras) ==
    IF paras = <<>> THEN <<>>
    ELSE DocxSubPara(Head(paras)) \o DocxSubParas(Tail(paras))

RECURSIVE DocxSubsectionsHeadingLast(_, _)
\* the same with doc.add_heading(sub, level=2) moved below the loop over paras
DocxSubsectionsHeadingLast(content, acc) ==
    IF content = <<>> THEN Ok(acc)
    ELSE IF ~CanUnpack(Head(content)) THEN Raise(acc, "ValueError")
    ELSE DocxSubsectionsHeadingLast(Tail(content),
            acc \o DocxSubParas(UnpackParas(Head(content)))
                \o <<Elem("Heading 2", UnpackSub(Head(content)))>>
                \o <<Elem("Normal", <<>>)>>)

RECURSIVE DocxSubsections(_, _)
\* `for sub, paras in content:` (lines 108-117)
DocxSubsections(content, acc) ==
    IF content = <<>> THEN Ok(acc)
    ELSE IF ~CanUnpack(Head(content)) THEN Raise(acc, "ValueError")
    ELSE DocxSubsections(Tail(content),
            acc \o <<Elem("Heading 2", UnpackSub(Head(content)))>>
                \o DocxSubParas(UnpackParas(Head(content)))
                \o <<Elem("Normal", <<>>)>>)

\* one paragraph item of a Paragraphs section (lines 120-127)
DocxPara(para) ==
    IF startswith(para, BULLETS) THEN docx_add_bullets(DecodeList(para, BULLETS))
    ELSE IF startswith(para, NUMBERED) THEN docx_add_numbered(DecodeList(para, NUMBERED))
    ELSE <<Elem("Normal", para)>>

RECURSIVE DocxParagraphs(_, _)
\* `for para in content:` (lines 119-127); a tuple has no startswith
DocxParagraphs(content, acc) ==
    IF content = <<>> THEN Ok(acc)
    ELSE IF Head(content).kind # "str" THEN Raise(acc, "AttributeError")
    ELSE DocxParagraphs(Tail(content), acc \o DocxPara(Head(content).s))

\* the spacer that closes a section whose content is not empty (line 129)
DocxSectionSpacer == <<Elem("Normal", <<>>)>>

\* the same without the `continue` of line 104: content[0] of an empty list
DocxSectionNoContinue(sec) ==
    LET h == <<Elem("Heading 1", sec.heading)>> IN
    IF Len(sec.content) = 0 THEN Raise(h \o <<Elem("Normal", <<>>)>>, "IndexError")
    ELSE LET r == IF sec.content[1].kind = "tuple"
                  THEN DocxSubsections(sec.content, h)
                  ELSE DocxParagraphs(sec.content, h)
         IN IF r.exc # "" THEN r ELSE Ok(r.elems \o DocxSectionSpacer)

\* one iteration of `for heading, content in spec.sections:` (lines 99-129)
DocxSection(sec) ==
    LET h == <<Elem("Heading 1", sec.heading)>> IN
    IF Len(sec.content) = 0 THEN Ok(h \o <<Elem("Normal", <<>>)>>)
    ELSE LET r == IF sec.content[1].kind = "tuple"
                  THEN DocxSubsections(sec.content, h)
                  ELSE DocxParagraphs(sec.content, h)
         IN IF r.exc # "" THEN r ELSE Ok(r.elems \o DocxSectionSpacer)

-----------------------------------------------------------------------------
(* build_pdf *)

PDF_SUBTITLE == <<"P","D","F">>

\* story.append(title), story.append(subtitle), story.append(Spacer(1, 10))
PdfTitle(title) ==
    <<Elem("TitleBig", title), Elem("Body", PDF_SUBTITLE), Elem("Spacer", <<>>)>>

\* one paragraph item, in a subsection (lines 166-175) and in a Paragraphs
\* section (lines 179-188): the two branches have the same text
PdfPara(para) ==
    IF startswith(para, BULLETS) THEN <<ListFlowable(DecodeList(para, BULLETS))>>
    ELSE <<Elem("Body", para)>>

RECURSIVE PdfSubParas(_)
PdfSubParas(paras) ==
    IF paras = <<>> THEN <<>>
    ELSE PdfPara(Head(paras)) \o PdfSubParas(Tail(paras))

RECURSIVE PdfSubsections(_, _)
\* `for sub, paras in content:` (lines 163-176)
PdfSubsections(content, acc) ==
    IF content = <<>> THEN Ok(acc)
    ELSE IF ~CanUnpack(Head(content)) THEN Raise(acc, "ValueError")
    ELSE PdfSubsections(Tail(content),
            acc \o <<Elem("H2", UnpackSub(Head(content)))>>
                \o PdfSubParas(UnpackParas(Head(content)))
                \o <<Elem("Spacer", <<>>)>>)

RECURSIVE PdfParagraphs(_, _)
\* `for para in content:` (lines 178-188)
PdfParagraphs(content, acc) ==
    IF content = <<>> THEN Ok(acc)
    ELSE IF Head(content).kind # "str" THEN Raise(acc, "AttributeError")
    ELSE PdfParagraphs(Tail(content), acc \o PdfPara(Head(content).s))

\* one iteration of `for heading, content in spec.sections:` (lines 155-189);
\* the closing Spacer of line 189 belongs to the else branch only
PdfSection(sec) ==
    LET h == <<Elem("H1", sec.heading)>> IN
    IF Len(sec.content) = 0 THEN Ok(h \o <<Elem("Spacer", <<>>)>>)
    ELSE IF sec.content[1].kind = "tuple" THEN PdfSubsections(sec.content, h)
    ELSE LET r == PdfParagraphs(sec.content, h)
         IN IF r.exc # "" THEN r ELSE Ok(r.elems \o <<Elem("Spacer", <<>>)>>)

-----------------------------------------------------------------------------
(* DocSpec values *)

DocSpec(stem, title, sections) ==
    [filename_stem |-> stem, title |-> title, sections |-> sections]

Section(heading, content) == [heading |-> heading, content |-> content]

NoSpec == DocSpec("", <<>>, <<>>)

Digit(n) == <<"0","1","2","3","4","5","6","7","8","9">>[n + 1]

\* the heading of the n-th section and the subheading of the n-th subsection
HeadingText(n) == <<"H", Digit(n)>>
SubText(n) == <<"S", Digit(n)>>

\* the paragraph strings input documents are made of
ItemPool ==
    { <<"a">>,                                    \* plain text
      <<>>,                                       \* the empty string
      BULLETS \o <<"a","|","b">>,                 \* BULLETS:a|b
      BULLETS \o <<" ","a","|"," ","|","b"," ">>, \* BULLETS: a| |b
      NUMBERED \o <<"a","|","b">>,                \* NUMBERED:a|b
      <<"W","E","I","R","D",":","a","|","b">>,    \* WEIRD:a|b
      BULLET_DOT \o <<"a">>,                      \* "* a"
      ONE_PAREN \o <<"a">>,                       \* "1) a"
      BULLETS \o BULLETS \o <<" ","|"," ">> }    \* BULLETS:BULLETS: |

\* an input document is written down as a stream of marks: a new section, a new
\* subsection of the last section, or a paragraph string that goes to the last
\* subsection when the last content element is one, else to the section itself
Marks ==
    {[m |-> "section", s |-> <<>>], [m |-> "sub", s |-> <<>>]}
    \cup {[m |-> "item", s |-> i] : i \in ItemPool}

Streams ==
    UNION {{t \in [1..n -> Marks] : t[1].m = "section"} : n \in 1..MaxTokens}

RECURSIVE CountTuples(_)
CountTuples(sections) ==
    IF sections = <<>> THEN 0
    ELSE Cardinality({i \in 1..Len(Head(sections).content) :
                        Head(sections).content[i].kind = "tuple"})
         + CountTuples(Tail(sections))

AddToLast(sections, el) ==
    [sections EXCEPT ![Len(sections)].content = Append(@, el)]

AddItem(sections, s) ==
    LET c == sections[Len(sections)].content IN
    IF c # <<>> /\ c[Len(c)].kind = "tuple"
    THEN [sections EXCEPT ![Len(sections)].content[Len(c)].paras = Append(@, s)]
    ELSE AddToLast(sections, Str(s))

RECURSIVE SectionsOf(_, _)
SectionsOf(t, sections) ==
    IF t = <<>> THEN sections
    ELSE SectionsOf(Tail(t),
            CASE Head(t).m = "section" ->
                    Append(sections, Section(HeadingText(Len(sections) + 1), <<>>))
              [] Head(t).m = "sub" ->
                    AddToLast(sections, Tup(SubText(CountTuples(sections) + 1), <<>>))
              [] OTHER -> AddItem(sections, Head(t).s))

RENDER_STEM == "doc"
RENDER_TITLE == <<"T">>

\* the documents the render calls are tried on
Docs == {DocSpec(RENDER_STEM, RENDER_TITLE, SectionsOf(t, <<>>)) : t \in Streams}

\* homogeneous content: only strs, or only tuples
WellFormedSection(sec) ==
    \A i, j \in 1..Len(sec.content) : sec.content[i].kind = sec.content[j].kind

WellFormed(d) == \A i \in 1..Len(d.sections) : WellFormedSection(d.sections[i])

-----------------------------------------------------------------------------
(* Files of OUT_DIR *)

\* a file name that leaves the stem out
PathWithoutStem(stem, ext) == <<OUT_DIR, "", ext>>

\* os.path.join(OUT_DIR, f"{stem}.{ext}")
Path(stem, ext) == <<OUT_DIR, stem, ext>>

Absent == [state |-> "absent", body |-> <<>>]
Stale == [state |-> "stale", body |-> <<>>]       \* left by an earlier run
Partial == [state |-> "partial", body |-> <<>>]   \* left by a write that failed
Written(body) == [state |-> "written", body |-> body]

\* line 131
DocxFile(s) == Path(s.filename_stem, "docx")

\* line 147
PdfFileAsDocx(s) == Path(s.filename_stem, "docx")
PdfFile(s) == Path(s.filename_stem, "pdf")

RenderPaths == {Path(RENDER_STEM, "docx"), Path(RENDER_STEM, "pdf")}

\* an exception left the for loop over spec.sections, at section si
RaisedInWalk == pc = "raised" /\ fn \in {"build_docx", "build_pdf"} /\ si <= Len(spec.sections)

\* SimpleDocTemplate(path, ...) keeps the file name and opens nothing (line 148)
PdfOpenTruncates(f, path) == [f EXCEPT ![path] = Partial]
PdfOpen(f, path) == f

-----------------------------------------------------------------------------
(* build_docx, one step per loop iteration *)

\* lines 95-97
build_docx_begin(s) ==
    /\ spec' = s
    /\ doc' = docx_add_title(s.title, DOCX_SUBTITLE)
    /\ si' = 1
    /\ pc' = "docx"
    /\ fn' = "build_docx"
    /\ exc' = ""
    /\ pre' = fs
    /\ UNCHANGED <<story, dirExists, fs, writes, stdout, wb, workers>>

\* lines 99-129, one section
build_docx_section ==
    /\ pc = "docx"
    /\ si <= Len(spec.sections)
    /\ LET r == DocxSection(spec.sections[si]) IN
         /\ doc' = doc \o r.elems
         /\ exc' = r.exc
         /\ IF r.exc = "" THEN si' = si + 1 /\ pc' = "docx"
                          ELSE si' = si /\ pc' = "raised"
    /\ UNCHANGED <<spec, story, dirExists, fs, writes, pre, called, fn,
                   specs, mi, stdout, wb, workers>>

\* lines 131-133; doc.save raises OSError when OUT_DIR is missing or the write fails
build_docx_save ==
    /\ pc = "docx"
    /\ si > Len(spec.sections)
    /\ LET path == DocxFile(spec) IN
         \/ /\ dirExists
            /\ fs' = [fs EXCEPT ![path] = Written(doc)]
            /\ writes' = [writes EXCEPT ![path] = @ + 1]
            /\ stdout' = Append(stdout, <<"Wrote">> \o path)
            /\ pc' = "returned"
            /\ exc' = ""
         \/ /\ fs' \in {fs} \cup (IF dirExists THEN {[fs EXCEPT ![path] = Partial]} ELSE {})
            /\ pc' = "raised"
            /\ exc' = "OSError"
            /\ UNCHANGED <<writes, stdout>>
    /\ UNCHANGED <<spec, si, doc, story, dirExists, pre, called, fn, specs, mi, wb,
                   workers>>

-----------------------------------------------------------------------------
(* build_pdf, one step per loop iteration *)

\* lines 146-153
build_pdf_begin(s) ==
    /\ spec' = s
    /\ fs' = PdfOpen(fs, PdfFile(s))
    /\ story' = PdfTitle(s.title)
    /\ si' = 1
    /\ pc' = "pdf"
    /\ fn' = "build_pdf"
    /\ exc' = ""
    /\ pre' = fs
    /\ UNCHANGED <<doc, dirExists, writes, stdout, wb, workers>>

\* lines 155-189, one section
build_pdf_section ==
    /\ pc = "pdf"
    /\ si <= Len(spec.sections)
    /\ LET r == PdfSection(spec.sections[si]) IN
         /\ story' = story \o r.elems
         /\ exc' = r.exc
         /\ IF r.exc = "" THEN si' = si + 1 /\ pc' = "pdf"
                          ELSE si' = si /\ pc' = "raised"
    /\ UNCHANGED <<spec, doc, dirExists, fs, writes, pre, called, fn,
                   specs, mi, stdout, wb, workers>>

\* lines 191-192; doc.build writes the file
build_pdf_build ==
    /\ pc = "pdf"
    /\ si > Len(spec.sections)
    /\ LET path == PdfFile(spec) IN
         \/ /\ dirExists
            /\ fs' = [fs EXCEPT ![path] = Written(story)]
            /\ writes' = [writes EXCEPT ![path] = @ + 1]
            /\ stdout' = Append(stdout, <<"Wrote">> \o path)
            /\ pc' = "returned"
            /\ exc' = ""
         \/ /\ fs' \in {fs} \cup (IF dirExists THEN {[fs EXCEPT ![path] = Partial]} ELSE {})
            /\ pc' = "raised"
            /\ exc' = "OSError"
            /\ UNCHANGED <<writes, stdout>>
    /\ UNCHANGED <<spec, si, doc, story, dirExists, pre, called, fn, specs, mi, wb,
                   workers>>

-----------------------------------------------------------------------------
(* The render calls on one document: build_docx(spec) and build_pdf(spec), each
   called once, in either order, by a caller that survives an exception *)

Init ==
    /\ spec \in Docs
    /\ pc = "idle"
    /\ si = 1
    /\ doc = <<>>
    /\ story = <<>>
    /\ exc = ""
    /\ dirExists \in BOOLEAN
    /\ fs \in [RenderPaths -> IF dirExists THEN {Absent, Stale} ELSE {Absent}]
    /\ writes = [p \in RenderPaths |-> 0]
    /\ pre = fs
    /\ called = {}
    /\ fn = ""
    /\ specs = <<>>
    /\ mi = 0
    /\ stdout = <<>>
    /\ wb = <<>>
    /\ workers = <<>>

CallDocx ==
    /\ pc \in {"idle", "returned", "raised"}
    /\ "docx" \notin called
    /\ called' = called \cup {"docx"}
    /\ build_docx_begin(spec)
    /\ UNCHANGED <<specs, mi>>

CallPdf ==
    /\ pc \in {"idle", "returned", "raised"}
    /\ "pdf" \notin called
    /\ called' = called \cup {"pdf"}
    /\ build_pdf_begin(spec)
    /\ UNCHANGED <<specs, mi>>

Next ==
    \/ CallDocx
    \/ build_docx_section
    \/ build_docx_save
    \/ CallPdf
    \/ build_pdf_section
    \/ build_pdf_build

Spec == Init /\ [][Next]_vars

-----------------------------------------------------------------------------
(* Structure read back from an output file *)

DocxPath == Path(RENDER_STEM, "docx")
PdfPath == Path(RENDER_STEM, "pdf")

\* both render calls wrote their file
BothWritten == fs[DocxPath].state = "written" /\ fs[PdfPath].state = "written"

Node(kind, text) == [kind |-> kind, text |-> text]

RECURSIVE Nodes(_, _)
Nodes(kind, texts) ==
    IF texts = <<>> THEN <<>> ELSE <<Node(kind, Head(texts))>> \o Nodes(kind, Tail(texts))

\* the structural element(s) one library object stands for; a spacer, and a
\* paragraph with no text, stand for none
ElemNodes(e) ==
    CASE e.style \in {"Heading 1", "H1"} -> <<Node("h1", e.text)>>
      [] e.style \in {"Heading 2", "H2"} -> <<Node("h2", e.text)>>
      [] e.style = "List Bullet" -> <<Node("bullet", e.text)>>
      [] e.style = "List Number" -> <<Node("number", e.text)>>
      [] e.style = "ListFlowable:bullet" -> Nodes("bullet", e.items)
      [] e.style = "ListFlowable:1" -> Nodes("number", e.items)
      [] e.style \in {"Normal", "Body"} /\ e.text # <<>> -> <<Node("para", e.text)>>
      [] OTHER -> <<>>

RECURSIVE NodesOf(_)
NodesOf(body) ==
    IF body = <<>> THEN <<>> ELSE ElemNodes(Head(body)) \o NodesOf(Tail(body))

\* title paragraph, subtitle paragraph, spacer
TitleBlockLen == 3

\* the structural elements of a file, after the title block
Structure(path) == NodesOf(DropFirst(fs[path].body, TitleBlockLen))

\* the same without headings and subheadings
RECURSIVE ItemNodes(_)
ItemNodes(nodes) ==
    IF nodes = <<>> THEN <<>>
    ELSE (IF Head(nodes).kind \in {"h1", "h2"} THEN <<>> ELSE <<Head(nodes)>>)
         \o ItemNodes(Tail(nodes))

\* the paragraph strings of a document, in document order
RECURSIVE ContentParas(_)
ContentParas(content) ==
    IF content = <<>> THEN <<>>
    ELSE (IF Head(content).kind = "str" THEN <<Head(content).s>> ELSE Head(content).paras)
         \o ContentParas(Tail(content))

RECURSIVE AllParas(_)
AllParas(sections) ==
    IF sections = <<>> THEN <<>>
    ELSE ContentParas(Head(sections).content) \o AllParas(Tail(sections))

\* the entries e1|...|en of a tagged string: what follows the tag, cut at "|"
RECURSIVE StripAll(_)
StripAll(segs) ==
    IF segs = <<>> THEN <<>> ELSE <<strip(Head(segs))>> \o StripAll(Tail(segs))

Entries(para, tag) == StripAll(split(DropFirst(para, Len(tag)), "|"))

\* a tagged string whose entries are all non-blank and hold no tag text
CleanTagged(para, tag) ==
    /\ startswith(para, tag)
    /\ \A i \in 1..Len(Entries(para, tag)) : Entries(para, tag)[i] # <<>>
    /\ replace(DropFirst(para, Len(tag)), tag) = DropFirst(para, Len(tag))

RECURSIVE ListNodes(_, _, _)
\* the list items that a document of tagged strings only is to be emitted as
ListNodes(paras, tag, kind) ==
    IF paras = <<>> THEN <<>>
    ELSE Nodes(kind, Entries(Head(paras), tag)) \o ListNodes(Tail(paras), tag, kind)

OnlyTagged(d, tag) ==
    /\ AllParas(d.sections) # <<>>
    /\ \A i \in 1..Len(AllParas(d.sections)) : CleanTagged(AllParas(d.sections)[i], tag)

-----------------------------------------------------------------------------
(* The document tree, and the tree read back from a DOCX file *)

TreeNode(kind, text, items) == [kind |-> kind, text |-> text, items |-> items]

\* the ParagraphItem a content string encodes
ItemOf(para) ==
    IF startswith(para, BULLETS) THEN TreeNode("bullets", <<>>, DecodeList(para, BULLETS))
    ELSE IF startswith(para, NUMBERED)
         THEN TreeNode("numbers", <<>>, DecodeList(para, NUMBERED))
    ELSE TreeNode("text", para, <<>>)

RECURSIVE ItemsOf(_)
ItemsOf(paras) ==
    IF paras = <<>> THEN <<>> ELSE <<ItemOf(Head(paras))>> \o ItemsOf(Tail(paras))

RECURSIVE ContentTree(_)
ContentTree(content) ==
    IF content = <<>> THEN <<>>
    ELSE (IF Head(content).kind = "str" THEN <<ItemOf(Head(content).s)>>
          ELSE <<TreeNode("h2", Head(content).sub, <<>>)>> \o ItemsOf(Head(content).paras))
         \o ContentTree(Tail(content))

RECURSIVE TreeOf(_)
\* the tree of a document in pre-order: heading, then its content
TreeOf(sections) ==
    IF sections = <<>> THEN <<>>
    ELSE <<TreeNode("h1", Head(sections).heading, <<>>)>>
         \o ContentTree(Head(sections).content) \o TreeOf(Tail(sections))

ListKind(style) == IF style = "List Bullet" THEN "bullets" ELSE "numbers"

RECURSIVE ParseDocx(_, _, _)
\* reads the paragraphs of a DOCX body back into a tree in pre-order: a run of
\* adjacent paragraphs of one list style is one list, a paragraph without text is
\* a spacer; prev is the style of the paragraph before
ParseDocx(body, acc, prev) ==
    IF body = <<>> THEN acc
    ELSE LET e == Head(body) IN
         ParseDocx(Tail(body),
            CASE e.style = "Heading 1" -> Append(acc, TreeNode("h1", e.text, <<>>))
              [] e.style = "Heading 2" -> Append(acc, TreeNode("h2", e.text, <<>>))
              [] e.style \in {"List Bullet", "List Number"} ->
                    IF prev = e.style
                    THEN [acc EXCEPT ![Len(acc)].items = Append(@, e.text)]
                    ELSE Append(acc, TreeNode(ListKind(e.style), <<>>, <<e.text>>))
              [] e.style = "Normal" /\ e.text # <<>> ->
                    Append(acc, TreeNode("text", e.text, <<>>))
              [] OTHER -> acc,
            e.style)

-----------------------------------------------------------------------------
(* The elements of one section in an output file *)

RECURSIVE AfterNth(_, _, _)
\* what follows the n-th element of the given style
AfterNth(body, style, n) ==
    IF body = <<>> THEN <<>>
    ELSE IF Head(body).style = style
         THEN (IF n = 1 THEN Tail(body) ELSE AfterNth(Tail(body), style, n - 1))
    ELSE AfterNth(Tail(body), style, n)

RECURSIVE UpTo(_, _)
\* the elements before the first one of the given style
UpTo(body, style) ==
    IF body = <<>> \/ Head(body).style = style THEN <<>>
    ELSE <<Head(body)>> \o UpTo(Tail(body), style)

\* what a file holds between the heading of section i and the next level-1 heading
SectionBody(path, h1, i) == UpTo(AfterNth(fs[path].body, h1, i), h1)

-----------------------------------------------------------------------------
(* Claims about the two walks *)

\* C1: for a well-formed document, the DOCX file and the PDF file hold the same
\* sequence of structural elements after the title block, with the same kind
\* (heading, subheading, paragraph, bullet item, numbered item) at each position.
C1_SameStructure ==
    (WellFormed(spec) /\ BothWritten) => Structure(DocxPath) = Structure(PdfPath)

\* C2: in a well-formed document made of BULLETS: strings only, each string is
\* emitted as bullet list items, one per entry, in order, in both files, in a
\* Paragraphs section and in a subsection alike.
C2_BulletLists ==
    (WellFormed(spec) /\ BothWritten /\ OnlyTagged(spec, BULLETS)) =>
        /\ ItemNodes(Structure(DocxPath)) = ListNodes(AllParas(spec.sections), BULLETS, "bullet")
        /\ ItemNodes(Structure(PdfPath)) = ListNodes(AllParas(spec.sections), BULLETS, "bullet")

\* C3: in a well-formed document made of NUMBERED: strings only, each string is
\* emitted as numbered list items, one per entry, in order, in both files, in a
\* Paragraphs section and in a subsection alike.
C3_NumberedLists ==
    (WellFormed(spec) /\ BothWritten /\ OnlyTagged(spec, NUMBERED)) =>
        /\ ItemNodes(Structure(DocxPath)) = ListNodes(AllParas(spec.sections), NUMBERED, "number")
        /\ ItemNodes(Structure(PdfPath)) = ListNodes(AllParas(spec.sections), NUMBERED, "number")

UpperCase ==
    {"A","B","C","D","E","F","G","H","I","J","K","L","M",
     "N","O","P","Q","R","S","T","U","V","W","X","Y","Z"}

\* capital letters, a colon, and a payload cut by "|", under a tag that is none of the two known
UnknownTag(para) ==
    /\ ~startswith(para, BULLETS)
    /\ ~startswith(para, NUMBERED)
    /\ \E k \in 2..Len(para) :
          /\ para[k] = ":"
          /\ \A j \in 1..(k - 1) : para[j] \in UpperCase
          /\ \E j \in (k + 1)..Len(para) : para[j] = "|"

HasUnknownTag(d) ==
    \E i \in 1..Len(AllParas(d.sections)) : UnknownTag(AllParas(d.sections)[i])

SectionHasUnknownTag(sec) ==
    \E i \in 1..Len(ContentParas(sec.content)) : UnknownTag(ContentParas(sec.content)[i])

\* C4: on a well-formed document that holds a string under an unknown tag, no
\* walk gets past the section that holds it, so that no render call writes a file.
C4_UnknownTagRejected ==
    (WellFormed(spec) /\ HasUnknownTag(spec)) =>
        /\ pc \in {"docx", "pdf"} =>
              \A i \in 1..(si - 1) : ~SectionHasUnknownTag(spec.sections[i])
        /\ \A p \in RenderPaths : fs[p].state # "written"

\* C5: the DOCX file of a well-formed document, read back, is the document's tree.
C5_RoundTrip ==
    (WellFormed(spec) /\ fs[DocxPath].state = "written") =>
        ParseDocx(DropFirst(fs[DocxPath].body, TitleBlockLen), <<>>, "") = TreeOf(spec.sections)

\* C6: a section without content items makes no walk raise, and in each file it
\* is its level-1 heading followed by exactly one spacer and nothing else.
C6_EmptySection ==
    /\ RaisedInWalk => spec.sections[si].content # <<>>
    /\ \A i \in 1..Len(spec.sections) :
          spec.sections[i].content = <<>> =>
             /\ fs[DocxPath].state = "written" =>
                   SectionBody(DocxPath, "Heading 1", i) = <<Elem("Normal", <<>>)>>
             /\ fs[PdfPath].state = "written" =>
                   SectionBody(PdfPath, "H1", i) = <<Elem("Spacer", <<>>)>>

C6_Witness ==
    /\ BothWritten
    /\ Len(spec.sections) >= 2
    /\ spec.sections[1].content = <<>>
    /\ spec.sections[2].content # <<>>

\* C8: while a render call walks the sections the files are as they were when
\* the call was entered, and they still are when the walk has raised.
C8_NoFileBeforeWalkEnds ==
    /\ pc \in {"docx", "pdf"} => fs = pre
    /\ RaisedInWalk => fs = pre

C8_Witness ==
    /\ RaisedInWalk
    /\ called = {"docx", "pdf"}
    /\ fs[DocxPath] = Stale
    /\ fs[PdfPath] = Stale

-----------------------------------------------------------------------------
(* build_calendar_xlsx *)

\* lines 203-206
SEMESTERS == 8

\* `for w in range(1, 15)`
WEEKS == 14

\* r = 3 + w
HEADER_ROW == 3

\* ws["B1"] = "2026-09-01"
DEFAULT_START == <<"2","0","2","6","-","0","9","-","0","1">>

\* the formula f'=DATEVALUE($B$1)+({k})*{mul}+{add}' as its parts
Formula(k, mul, add) == [ref |-> "$B$1", k |-> k, mul |-> mul, add |-> add]

\* line 227
WeekStartFormulaOffByOne(w) == Formula(w, 7, 0)
WeekStartFormula(w) == Formula(w - 1, 7, 0)

\* line 228
WeekEndFormula(w) == Formula(w - 1, 7, 6)

\* lines 209-231: one sheet
Sheet(sem) ==
    [sem |-> sem,
     B1 |-> DEFAULT_START,
     rows |-> [r \in (HEADER_ROW + 1)..(HEADER_ROW + WEEKS) |->
                 [week |-> r - HEADER_ROW,
                  start |-> WeekStartFormula(r - HEADER_ROW),
                  end |-> WeekEndFormula(r - HEADER_ROW)]]]

CalendarPath == Path("Mechatronics_Academic_Calendar", "xlsx")

\* lines 196-197
calendar_begin ==
    /\ wb' = <<>>
    /\ pc' = "calendar"
    /\ fn' = "build_calendar_xlsx"
    /\ exc' = ""
    /\ pre' = fs
    /\ UNCHANGED <<spec, si, doc, story, dirExists, fs, writes, called, specs, mi, stdout,
                   workers>>

\* lines 208-243, one semester
calendar_sheet ==
    /\ pc = "calendar"
    /\ Len(wb) < SEMESTERS
    /\ wb' = Append(wb, Sheet(Len(wb) + 1))
    /\ UNCHANGED <<spec, pc, si, doc, story, exc, dirExists, fs, writes, pre,
                   called, fn, specs, mi, stdout, workers>>

\* lines 245-247
calendar_save ==
    /\ pc = "calendar"
    /\ Len(wb) = SEMESTERS
    /\ \/ /\ dirExists
          /\ fs' = [fs EXCEPT ![CalendarPath] = Written(wb)]
          /\ writes' = [writes EXCEPT ![CalendarPath] = @ + 1]
          /\ stdout' = Append(stdout, <<"Wrote">> \o CalendarPath)
          /\ pc' = "returned"
          /\ exc' = ""
       \/ /\ fs' \in {fs} \cup (IF dirExists THEN {[fs EXCEPT ![CalendarPath] = Partial]}
                                             ELSE {})
          /\ pc' = "raised"
          /\ exc' = "OSError"
          /\ UNCHANGED <<writes, stdout>>
    /\ UNCHANGED <<spec, si, doc, story, dirExists, pre, called, fn, specs, mi, wb,
                   workers>>

-----------------------------------------------------------------------------
(* The spreadsheet program's reading of the workbook *)

\* int(c) for a digit character
DigitVal(c) ==
    CASE c = "0" -> 0 [] c = "1" -> 1 [] c = "2" -> 2 [] c = "3" -> 3 [] c = "4" -> 4
      [] c = "5" -> 5 [] c = "6" -> 6 [] c = "7" -> 7 [] c = "8" -> 8 [] c = "9" -> 9

\* the number a string of digits denotes
RECURSIVE Number(_)
Number(s) == IF s = <<>> THEN 0 ELSE 10 * Number(SubSeq(s, 1, Len(s) - 1)) + DigitVal(s[Len(s)])

\* days from the civil calendar's day 0000-03-01 to the day y-m-d
DaysFromCivil(y, m, d) ==
    LET yy == IF m <= 2 THEN y - 1 ELSE y
        mp == IF m > 2 THEN m - 3 ELSE m + 9
    IN 365 * yy + (yy \div 4) - (yy \div 100) + (yy \div 400) + ((153 * mp + 2) \div 5) + d - 1

\* DATEVALUE("YYYY-MM-DD"): the serial number of the day, day 1 being 1899-12-31
DATEVALUE(s) ==
    DaysFromCivil(Number(SubSeq(s, 1, 4)), Number(SubSeq(s, 6, 7)), Number(SubSeq(s, 9, 10)))
    - DaysFromCivil(1899, 12, 30)

\* the value of a formula cell of a sheet
Eval(f, sheet) == DATEVALUE(sheet.B1) + f.k * f.mul + f.add

\* the start dates a user sets in B1 (line 210)
StartDates ==
    { DEFAULT_START, <<"2","0","2","8","-","0","2","-","2","6">> }

\* once the workbook is written, the user sets the start date of a sheet
EditStartDate ==
    /\ fs[CalendarPath].state = "written"
    /\ \E i \in 1..Len(fs[CalendarPath].body), d \in StartDates :
          /\ fs[CalendarPath].body[i].B1 # d
          /\ fs' = [fs EXCEPT ![CalendarPath].body[i].B1 = d]
    /\ UNCHANGED <<spec, pc, si, doc, story, exc, dirExists, writes, pre,
                   called, fn, specs, mi, stdout, wb, workers>>

InitCalendar ==
    /\ spec = NoSpec
    /\ pc = "idle"
    /\ si = 1
    /\ doc = <<>>
    /\ story = <<>>
    /\ exc = ""
    /\ dirExists \in BOOLEAN
    /\ fs \in [{CalendarPath} -> IF dirExists THEN {Absent, Stale} ELSE {Absent}]
    /\ writes = [p \in {CalendarPath} |-> 0]
    /\ pre = fs
    /\ called = {}
    /\ fn = ""
    /\ specs = <<>>
    /\ mi = 0
    /\ stdout = <<>>
    /\ wb = <<>>
    /\ workers = <<>>

CallCalendar ==
    /\ pc = "idle"
    /\ calendar_begin

NextCalendar ==
    \/ CallCalendar
    \/ calendar_sheet
    \/ calendar_save
    \/ EditStartDate

SpecCalendar == InitCalendar /\ [][NextCalendar]_vars

\* C10: on each of the 8 sheets of the written workbook and for every week w in
\* 1..14, the week-start cell evaluates to the start date plus 7*(w-1) days and
\* the week-end cell to 6 days more; the start of week w+1 is the day after the
\* end of week w.
C10_WeekDates ==
    fs[CalendarPath].state = "written" =>
        LET book == fs[CalendarPath].body IN
        /\ Len(book) = 8
        /\ \A i \in 1..Len(book) :
              LET sh == book[i]
                  start(w) == Eval(sh.rows[3 + w].start, sh)
                  end(w) == Eval(sh.rows[3 + w].end, sh)
              IN /\ DOMAIN sh.rows = 4..17
                 /\ \A w \in 1..14 :
                       /\ sh.rows[3 + w].week = w
                       /\ start(w) = DATEVALUE(sh.B1) + 7 * (w - 1)
                       /\ end(w) = start(w) + 6
                 /\ \A w \in 1..13 : start(w + 1) = end(w) + 1

C10_Witness ==
    /\ fs[CalendarPath].state = "written"
    /\ \E i \in 1..Len(fs[CalendarPath].body) :
          /\ fs[CalendarPath].body[i].B1 # DEFAULT_START
          /\ Eval(fs[CalendarPath].body[i].rows[5].start, fs[CalendarPath].body[i])
                = DATEVALUE(fs[CalendarPath].body[i].B1) + 7

-----------------------------------------------------------------------------
(* build_specs: the four fixed documents.  Titles, headings and running text
   are shortened to a few characters; the file names, the number and order
   of sections, subsections, paragraph strings and list entries, and the
   tags and separators of every string are those of the source. *)

\* a string of running text
Txt == <<"t">>

\* a string of running text that holds " | " (the "Weekly topics (14)" strings)
TxtBars == <<"t"," ","|"," ","t">>

RECURSIVE MoreEntries(_)
MoreEntries(n) == IF n = 0 THEN <<>> ELSE <<"|"," ","e">> \o MoreEntries(n - 1)

\* "BULLETS: e| e| ... | e" with n entries
Bul(n) == BULLETS \o <<" ","e">> \o MoreEntries(n - 1)

RECURSIVE Rep(_, _)
\* [x] * n
Rep(x, n) == IF n = 0 THEN <<>> ELSE <<x>> \o Rep(x, n - 1)

\* a Paragraphs section of the given strings
Paras(n, strs) == Section(HeadingText(n), [i \in 1..Len(strs) |-> Str(strs[i])])

\* a Subsections section: one (subheading, paras) tuple per list of strings
Subs(n, lists) ==
    Section(HeadingText(n), [i \in 1..Len(lists) |-> Tup(SubText(i), lists[i])])

\* lines 252-348
handbook ==
    DocSpec("Mechatronics_Program_Handbook", <<"T","1">>,
        << Paras(1, <<Txt, Txt>>),
           Paras(2, <<Bul(7)>>),
           Subs(3, Rep(<<Txt, Txt>>, 4)),
           Paras(4, <<Bul(4), Txt>>),
           Subs(5, << <<Txt, Txt, TxtBars, Txt, Txt, Txt>>,
                      <<Txt, TxtBars, Txt, Txt>>,
                      <<Txt, TxtBars, Txt, Txt>>,
                      <<Txt, TxtBars, Txt, Txt>>,
                      <<Txt, Txt, Txt, Txt>>,
                      <<Txt, Txt, Txt, Txt>> >>),
           Paras(6, <<Bul(7)>>),
           Paras(7, <<Txt, Txt>>) >>)

\* lines 351-436
lab_manual ==
    DocSpec("Mechatronics_Lab_Manual", <<"T","2">>,
        << Paras(1, <<Txt, Bul(8)>>),
           Subs(2, <<Rep(Txt, 5), Rep(Txt, 3), Rep(Txt, 3), Rep(Txt, 3)>>),
           Subs(3, <<Rep(Txt, 4), Rep(Txt, 3), Rep(Txt, 2)>>),
           Paras(4, <<Bul(5)>>),
           Paras(5, <<Bul(4)>>),
           Paras(6, <<Bul(6)>>),
           Paras(7, <<Bul(5)>>) >>)

\* lines 439-477
exams ==
    DocSpec("Mechatronics_Sample_Exams", <<"T","3">>,
        << Paras(1, <<Bul(6), Txt>>),
           Paras(2, <<Bul(5), Txt>>),
           Paras(3, <<Txt, Bul(4), Txt>>),
           Paras(4, <<Txt, Txt>>),
           Paras(5, <<Txt, Txt>>) >>)

\* lines 480-535
portfolio ==
    DocSpec("Mechatronics_Portfolio_Roadmap", <<"T","4">>,
        << Paras(1, <<Bul(4)>>),
           Subs(2, Rep(<<Bul(2)>>, 8)),
           Paras(3, <<Bul(8)>>) >>)

build_specs == <<handbook, lab_manual, exams, portfolio>>

-----------------------------------------------------------------------------
(* main *)

\* the nine paths of the fixed output set
MainPaths ==
    {Path(build_specs[i].filename_stem, ext) :
        i \in 1..Len(build_specs), ext \in {"docx", "pdf"}}
    \cup {CalendarPath}

SUMMARY == <<"All files generated in ./out/">>

\* main has no try/except: its next statement runs only when the call returned
MainResumesAfterRaise(p) == p \in {"returned", "raised"}
MainResumable(p) == p = "returned"

\* the directory as main finds it: missing, or holding files of an earlier run
InitMain ==
    /\ spec = NoSpec
    /\ pc = "start"
    /\ si = 1
    /\ doc = <<>>
    /\ story = <<>>
    /\ exc = ""
    /\ dirExists \in BOOLEAN
    /\ \E old \in SUBSET MainPaths :
          /\ ~dirExists => old = {}
          /\ fs = [p \in MainPaths |-> IF p \in old THEN Stale ELSE Absent]
    /\ writes = [p \in MainPaths |-> 0]
    /\ pre = fs
    /\ called = {}
    /\ fn = ""
    /\ specs = <<>>
    /\ mi = 0
    /\ stdout = <<>>
    /\ wb = <<>>
    /\ workers = <<>>

\* lines 541-542: ensure_out() is os.makedirs(OUT_DIR, exist_ok=True)
main_ensure_out ==
    /\ pc = "start"
    /\ fn' = "ensure_out"
    /\ \/ /\ dirExists' = TRUE
          /\ specs' = build_specs
          /\ pc' = "returned"
          /\ exc' = ""
       \/ /\ ~dirExists
          /\ pc' = "raised"
          /\ exc' = "OSError"
          /\ UNCHANGED <<dirExists, specs>>
    /\ UNCHANGED <<spec, si, doc, story, fs, writes, pre, called, mi, stdout, wb, workers>>

\* line 545, in the first and in a later iteration of `for s in specs`
main_build_docx ==
    /\ MainResumable(pc)
    /\ \/ fn = "ensure_out" /\ Len(specs) >= 1 /\ mi' = 1
       \/ fn = "build_pdf" /\ mi < Len(specs) /\ mi' = mi + 1
    /\ build_docx_begin(specs[mi'])
    /\ UNCHANGED <<specs, called>>

\* line 546
main_build_pdf ==
    /\ MainResumable(pc)
    /\ fn = "build_docx"
    /\ build_pdf_begin(specs[mi])
    /\ UNCHANGED <<specs, mi, called>>

\* line 548
main_build_calendar_xlsx ==
    /\ MainResumable(pc)
    /\ fn = "build_pdf"
    /\ mi = Len(specs)
    /\ calendar_begin

\* line 549
main_summary ==
    /\ MainResumable(pc)
    /\ fn = "build_calendar_xlsx"
    /\ stdout' = Append(stdout, SUMMARY)
    /\ pc' = "done"
    /\ UNCHANGED <<spec, si, doc, story, exc, dirExists, fs, writes, pre,
                   called, fn, specs, mi, wb, workers>>

NextMain ==
    \/ main_ensure_out
    \/ main_build_docx
    \/ build_docx_section
    \/ build_docx_save
    \/ main_build_pdf
    \/ build_pdf_section
    \/ build_pdf_build
    \/ main_build_calendar_xlsx
    \/ calendar_sheet
    \/ calendar_save
    \/ main_summary

SpecMain == InitMain /\ [][NextMain]_vars

-----------------------------------------------------------------------------
(* Claims about main *)

\* the paths in the order main writes them
RECURSIVE PathsInOrder(_)
PathsInOrder(ss) ==
    IF ss = <<>> THEN <<CalendarPath>>
    ELSE <<Path(Head(ss).filename_stem, "docx"), Path(Head(ss).filename_stem, "pdf")>>
         \o PathsInOrder(Tail(ss))

PathAt(k) == PathsInOrder(build_specs)[k]

LastStep == Len(PathsInOrder(build_specs))

\* the number of the step of main that runs or ran last: the k-th (document,
\* format) pair, the calendar after them, 0 before the first
StepNo ==
    CASE fn = "build_docx" -> 2 * mi - 1
      [] fn = "build_pdf" -> 2 * mi
      [] fn = "build_calendar_xlsx" -> LastStep
      [] OTHER -> 0

Printed(line) == \E i \in 1..Len(stdout) : stdout[i] = line

\* when an exception has left main: the files of the earlier steps are on disk,
\* no later step has written its file, the summary line is not printed
HaltedAtStep ==
    pc = "raised" =>
        /\ \A k \in 1..LastStep :
              /\ k < StepNo => fs[PathAt(k)].state = "written" /\ writes[PathAt(k)] = 1
              /\ k > StepNo => fs[PathAt(k)].state # "written" /\ writes[PathAt(k)] = 0
                               /\ ~Printed(<<"Wrote">> \o PathAt(k))
        /\ ~Printed(SUMMARY)

\* C7: a failure of the k-th step of main ends the run there: the earlier files
\* stay, no later file is written, the summary is not printed, and no step is
\* taken after the failure.
C7_ErrorsAreFatal == [](HaltedAtStep) /\ [][pc = "raised" => UNCHANGED vars]_vars

C7_Witness ==
    /\ pc = "raised"
    /\ StepNo = 4
    /\ fs[PathAt(1)].state = "written"
    /\ fs[PathAt(3)].state = "written"
    /\ fs[PathAt(5)].state = "stale"

\* C9: when main has ended without an exception, OUT_DIR exists and each of the
\* nine paths (four base names with .docx and .pdf, and the spreadsheet) holds
\* a file this run wrote exactly once; after every step that returned, that
\* step's file is written and as many files are written as steps have run.
C9_NineFilesOnce ==
    /\ Cardinality(MainPaths) = 9
    /\ \A p \in MainPaths : writes[p] <= 1
    /\ (pc = "returned" /\ StepNo >= 1) =>
          /\ fs[PathAt(StepNo)].state = "written"
          /\ Cardinality({p \in MainPaths : writes[p] = 1}) = StepNo
    /\ pc = "done" =>
          /\ dirExists
          /\ \A p \in MainPaths : fs[p].state = "written" /\ writes[p] = 1
          /\ \A p \in MainPaths : Printed(<<"Wrote">> \o p)

C9_Witness ==
    /\ pc = "done"
    /\ pre[PathAt(1)].state = "written"
    /\ pre[CalendarPath].state = "stale"

-----------------------------------------------------------------------------
(* Document order *)

RECURSIVE ParaMarks(_)
ParaMarks(paras) ==
    IF paras = <<>> THEN <<>>
    ELSE <<Node("item", Head(paras))>> \o ParaMarks(Tail(paras))

RECURSIVE ContentOutline(_)
ContentOutline(content) ==
    IF content = <<>> THEN <<>>
    ELSE (IF Head(content).kind = "str" THEN <<Node("item", Head(content).s)>>
          ELSE <<Node("h2", Head(content).sub)>> \o ParaMarks(Head(content).paras))
         \o ContentOutline(Tail(content))

RECURSIVE Outline(_)
\* the headings, subheadings and paragraph strings of a document, in document order
Outline(sections) ==
    IF sections = <<>> THEN <<>>
    ELSE <<Node("h1", Head(sections).heading)>>
         \o ContentOutline(Head(sections).content) \o Outline(Tail(sections))

\* the texts a paragraph string can stand in a file with, whatever the kind of
\* element: itself, its list entries, or itself without the bullet prefix; an
\* element without text is not told from a spacer
Renderings(para) ==
    {IF para = <<>> THEN <<>> ELSE <<para>>}
    \cup (IF startswith(para, BULLETS) THEN {DecodeList(para, BULLETS)} ELSE {})
    \cup (IF startswith(para, NUMBERED) THEN {DecodeList(para, NUMBERED)} ELSE {})
    \cup (IF startswith(para, BULLET_DOT)
          THEN {IF Len(para) = 2 THEN <<>> ELSE <<DropFirst(para, 2)>>} ELSE {})

RECURSIVE InOrder(_, _)
\* the structural elements are those of the outline, in its order: each heading
\* at level 1 and each subheading at level 2 where the outline has it, and
\* between them the elements of the paragraph strings, string by string
InOrder(nodes, outline) ==
    IF outline = <<>> THEN nodes = <<>>
    ELSE LET e == Head(outline) IN
         IF e.kind \in {"h1", "h2"}
         THEN /\ nodes # <<>>
              /\ Head(nodes) = e
              /\ InOrder(Tail(nodes), Tail(outline))
         ELSE \E r \in Renderings(e.text) :
                 /\ Len(r) <= Len(nodes)
                 /\ \A j \in 1..Len(r) :
                       nodes[j].kind \notin {"h1", "h2"} /\ nodes[j].text = r[j]
                 /\ InOrder(DropFirst(nodes, Len(r)), Tail(outline))

\* C11: in both files of a well-formed document the level-1 headings are the
\* section headings in section order, each before its section's content; each
\* subheading is at level 2 and is followed by the elements of its subsection's
\* strings in their order, before the next subheading; nothing of a later
\* section comes before an element of an earlier one.
C11_DocumentOrder ==
    WellFormed(spec) =>
        /\ fs[DocxPath].state = "written" => InOrder(Structure(DocxPath), Outline(spec.sections))
        /\ fs[PdfPath].state = "written" => InOrder(Structure(PdfPath), Outline(spec.sections))

C11_Witness ==
    /\ BothWritten
    /\ Len(spec.sections) = 1
    /\ Len(spec.sections[1].content) = 2
    /\ spec.sections[1].content[1].kind = "tuple"
    /\ spec.sections[1].content[2].kind = "tuple"
    /\ spec.sections[1].content[1].paras # <<>>

-----------------------------------------------------------------------------
(* Spacers *)

RECURSIVE SpacerMarks(_, _, _)
\* the subheadings ("h2") and spacers ("spacer") of a run of elements, in order
SpacerMarks(body, h2, spacer) ==
    IF body = <<>> THEN <<>>
    ELSE (IF Head(body).style = h2 THEN <<"h2">>
          ELSE IF Head(body) = spacer THEN <<"spacer">>
          ELSE <<>>)
         \o SpacerMarks(Tail(body), h2, spacer)

RECURSIVE SubsectionSpacers(_)
SubsectionSpacers(k) ==
    IF k = 0 THEN <<>> ELSE <<"h2", "spacer">> \o SubsectionSpacers(k - 1)

\* one spacer after each subsection, and one after the section
SpacersOf(sec) ==
    IF sec.content # <<>> /\ sec.content[1].kind = "tuple"
    THEN SubsectionSpacers(Len(sec.content)) \o <<"spacer">>
    ELSE <<"spacer">>

\* no paragraph string is empty: in a DOCX file such a string is the same
\* paragraph as a spacer
NoEmptyString(d) ==
    \A i \in 1..Len(AllParas(d.sections)) : AllParas(d.sections)[i] # <<>>

SpacersAsClaimed(path, h1, h2, spacer) ==
    \A i \in 1..Len(spec.sections) :
        LET body == SectionBody(path, h1, i) IN
        /\ SpacerMarks(body, h2, spacer) = SpacersOf(spec.sections[i])
        /\ body # <<>> /\ body[Len(body)] = spacer

\* C12: in both files a Paragraphs section has one spacer, after its last item,
\* and a Subsections section with k subsections has one spacer after each
\* subsection and one more after the section.
C12_Spacers ==
    (WellFormed(spec) /\ NoEmptyString(spec)) =>
        /\ fs[DocxPath].state = "written" =>
              SpacersAsClaimed(DocxPath, "Heading 1", "Heading 2", Elem("Normal", <<>>))
        /\ fs[PdfPath].state = "written" =>
              SpacersAsClaimed(PdfPath, "H1", "H2", Elem("Spacer", <<>>))

-----------------------------------------------------------------------------
(* Plain text *)

\* no paragraph string starts with one of the two tags
Untagged(d) ==
    \A i \in 1..Len(AllParas(d.sections)) :
        /\ ~startswith(AllParas(d.sections)[i], BULLETS)
        /\ ~startswith(AllParas(d.sections)[i], NUMBERED)

\* C13: a string that starts with neither tag, a string starting with "1) " or
\* with the bullet character included, is one body paragraph holding the string
\* as it is, in both files, in a Paragraphs section and in a subsection alike.
C13_PlainText ==
    (WellFormed(spec) /\ NoEmptyString(spec) /\ Untagged(spec)) =>
        /\ fs[DocxPath].state = "written" =>
              ItemNodes(Structure(DocxPath)) = Nodes("para", AllParas(spec.sections))
        /\ fs[PdfPath].state = "written" =>
              ItemNodes(Structure(PdfPath)) = Nodes("para", AllParas(spec.sections))

-----------------------------------------------------------------------------
(* Decoding of tagged strings *)

\* the tag text stands at position i of s
TagAt(s, tag, i) ==
    i + Len(tag) - 1 <= Len(s) /\ SubSeq(s, i, i + Len(tag) - 1) = tag

\* the positions of s outside every occurrence of the tag text
Outside(s, tag) ==
    {i \in 1..Len(s) : ~\E j \in 1..i : j > i - Len(tag) /\ TagAt(s, tag, j)}

\* the characters of s at the positions P, in order
TextAt(s, P) ==
    [n \in 1..Cardinality(P) |->
        s[CHOOSE i \in P : Cardinality({j \in P : j < i}) = n - 1]]

\* the pipe characters left in s
Bars(s, tag) == {i \in Outside(s, tag) : s[i] = "|"}

\* which pipe-separated segment (0 is the first) each other position left belongs to
SegmentOf(s, out) ==
    [i \in {j \in out : s[j] # "|"} |->
        Cardinality({b \in out : b < i /\ s[b] = "|"})]

\* the non-blank trimmed segments of s, in their original order
NonBlankSegments(s, tag) ==
    LET seg == SegmentOf(s, Outside(s, tag))
        nonSpace == {i \in DOMAIN seg : s[i] # " "}
        nonBlank == {seg[i] : i \in nonSpace}
        \* segment k without the spaces before its first and after its last other character
        trimmed(k) ==
            {i \in DOMAIN seg :
                /\ seg[i] = k
                /\ \E a \in nonSpace : seg[a] = k /\ a <= i
                /\ \E b \in nonSpace : seg[b] = k /\ i <= b}
        nth(n) == CHOOSE k \in nonBlank : Cardinality({j \in nonBlank : j < k}) = n - 1
    IN  [n \in 1..Cardinality(nonBlank) |-> TextAt(s, trimmed(nth(n)))]

RECURSIVE DecodedNodes(_)
\* the list items that a document of tagged strings is to be emitted as
DecodedNodes(paras) ==
    IF paras = <<>> THEN <<>>
    ELSE (IF startswith(Head(paras), BULLETS)
          THEN Nodes("bullet", NonBlankSegments(Head(paras), BULLETS))
          ELSE Nodes("number", NonBlankSegments(Head(paras), NUMBERED)))
         \o DecodedNodes(Tail(paras))

\* build_docx decodes every string of d: Paragraphs sections of tagged strings
DocxDecodesAll(d) ==
    /\ \A i \in 1..Len(d.sections) : \A j \in 1..Len(d.sections[i].content) :
          d.sections[i].content[j].kind = "str"
    /\ LET paras == AllParas(d.sections) IN
       \A i \in 1..Len(paras) :
          startswith(paras[i], BULLETS) \/ startswith(paras[i], NUMBERED)

\* build_pdf decodes every string of d: BULLETS: strings
PdfDecodesAll(d) ==
    /\ WellFormed(d)
    /\ LET paras == AllParas(d.sections) IN
       \A i \in 1..Len(paras) : startswith(paras[i], BULLETS)

\* C15: where a walk decodes a tagged string, the list items it emits are the
\* non-blank segments of the string, trimmed and in their order, after every
\* occurrence of the tag text is taken out and the rest is cut at "|"; there may
\* be fewer of them than segments, and none when every segment is blank.
C15_Decode ==
    /\ (fs[DocxPath].state = "written" /\ DocxDecodesAll(spec)) =>
          ItemNodes(Structure(DocxPath)) = DecodedNodes(AllParas(spec.sections))
    /\ (fs[PdfPath].state = "written" /\ PdfDecodesAll(spec)) =>
          ItemNodes(Structure(PdfPath)) = DecodedNodes(AllParas(spec.sections))

\* both files written for a document holding a string whose segments are all
\* blank and whose tag text occurs twice, and a string with a blank segment
\* among others
C15_Witness ==
    /\ BothWritten /\ DocxDecodesAll(spec) /\ PdfDecodesAll(spec)
    /\ \E i \in 1..Len(AllParas(spec.sections)) :
          LET para == AllParas(spec.sections)[i] IN
          /\ NonBlankSegments(para, BULLETS) = <<>>
          /\ \E j \in 2..Len(para) : TagAt(para, BULLETS, j)
    /\ \E i \in 1..Len(AllParas(spec.sections)) :
          LET para == AllParas(spec.sections)[i] IN
          /\ NonBlankSegments(para, BULLETS) # <<>>
          /\ Len(NonBlankSegments(para, BULLETS)) < Cardinality(Bars(para, BULLETS)) + 1

-----------------------------------------------------------------------------
(* The eight render calls of main's loop, run side by side.  build_docx and
   build_pdf reach no module-level object but OUT_DIR: the Document, the style
   sheet and the story are locals of the call, so a worker's frame holds them,
   and they are gone when the call returns or raises.  The walk of a call works
   on its frame only and is one step; the write to OUT_DIR is another.  What a
   worker prints is kept with its frame: the order in which the lines of
   different workers reach a shared terminal is the order of the schedule. *)

\* the (document, format) pairs of lines 544-546
Calls == {<<i, ext>> : i \in 1..Len(build_specs), ext \in {"docx", "pdf"}}

CallPath(c) ==
    IF c[2] = "docx" THEN DocxFile(build_specs[c[1]]) ELSE PdfFile(build_specs[c[1]])

\* position, locals and output of one call
Frame(p, out, e, printed) == [pc |-> p, out |-> out, exc |-> e, printed |-> printed]

RECURSIVE DocxWalk(_)
\* the for loop of lines 99-129
DocxWalk(sections) ==
    IF sections = <<>> THEN Ok(<<>>)
    ELSE LET r == DocxSection(Head(sections)) IN
         IF r.exc # "" THEN r
         ELSE LET rest == DocxWalk(Tail(sections)) IN
              [elems |-> r.elems \o rest.elems, exc |-> rest.exc]

RECURSIVE PdfWalk(_)
\* the for loop of lines 155-189
PdfWalk(sections) ==
    IF sections = <<>> THEN Ok(<<>>)
    ELSE LET r == PdfSection(Head(sections)) IN
         IF r.exc # "" THEN r
         ELSE LET rest == PdfWalk(Tail(sections)) IN
              [elems |-> r.elems \o rest.elems, exc |-> rest.exc]

\* the two walks of the documents main renders, computed once
Walked ==
    [d \in {build_specs[i] : i \in 1..Len(build_specs)} |->
        [docx |-> DocxWalk(d.sections), pdf |-> PdfWalk(d.sections)]]

\* the calls that ended in an exception
Raised == {c \in DOMAIN workers : workers[c].pc = "raised"}

\* main has run ensure_out() and build_specs(); no call has started
InitParallel ==
    /\ spec = NoSpec
    /\ pc = "idle"
    /\ si = 1
    /\ doc = <<>>
    /\ story = <<>>
    /\ exc = ""
    /\ dirExists = TRUE
    /\ fs = [p \in MainPaths |-> Absent]
    /\ writes = [p \in MainPaths |-> 0]
    /\ pre = fs
    /\ called = {}
    /\ fn = ""
    /\ specs = build_specs
    /\ mi = 0
    /\ stdout = <<>>
    /\ wb = <<>>
    /\ workers = [c \in Calls |-> Frame("todo", <<>>, "", <<>>)]

\* build_docx(specs[i]), lines 95-129
worker_build_docx_walk(i) ==
    LET c == <<i, "docx">>
        r == Walked[specs[i]].docx IN
    /\ workers[c].pc = "todo"
    /\ workers' = [workers EXCEPT ![c] =
                      IF r.exc = ""
                      THEN Frame("walked",
                                 docx_add_title(specs[i].title, DOCX_SUBTITLE) \o r.elems,
                                 "", <<>>)
                      ELSE Frame("raised", <<>>, r.exc, <<>>)]
    /\ UNCHANGED <<spec, pc, si, doc, story, exc, dirExists, fs, writes, pre,
                   called, fn, specs, mi, stdout, wb>>

\* build_docx(specs[i]), lines 131-133
worker_build_docx_save(i) ==
    LET c == <<i, "docx">>
        path == DocxFile(specs[i]) IN
    /\ workers[c].pc = "walked"
    /\ \/ /\ fs' = [fs EXCEPT ![path] = Written(workers[c].out)]
          /\ writes' = [writes EXCEPT ![path] = @ + 1]
          /\ workers' = [workers EXCEPT ![c] =
                            Frame("returned", <<>>, "", <<<<"Wrote">> \o path>>)]
       \/ /\ Cardinality(Raised) < MaxFaults
          /\ fs' \in {fs, [fs EXCEPT ![path] = Partial]}
          /\ workers' = [workers EXCEPT ![c] = Frame("raised", <<>>, "OSError", <<>>)]
          /\ UNCHANGED writes
    /\ UNCHANGED <<spec, pc, si, doc, story, exc, dirExists, pre,
                   called, fn, specs, mi, stdout, wb>>

\* build_pdf(specs[i]), lines 146-189
worker_build_pdf_walk(i) ==
    LET c == <<i, "pdf">>
        r == Walked[specs[i]].pdf IN
    /\ workers[c].pc = "todo"
    /\ fs' = PdfOpen(fs, PdfFile(specs[i]))
    /\ workers' = [workers EXCEPT ![c] =
                      IF r.exc = ""
                      THEN Frame("walked", PdfTitle(specs[i].title) \o r.elems, "", <<>>)
                      ELSE Frame("raised", <<>>, r.exc, <<>>)]
    /\ UNCHANGED <<spec, pc, si, doc, story, exc, dirExists, writes, pre,
                   called, fn, specs, mi, stdout, wb>>

\* build_pdf(specs[i]), lines 191-192
worker_build_pdf_build(i) ==
    LET c == <<i, "pdf">>
        path == PdfFile(specs[i]) IN
    /\ workers[c].pc = "walked"
    /\ \/ /\ fs' = [fs EXCEPT ![path] = Written(workers[c].out)]
          /\ writes' = [writes EXCEPT ![path] = @ + 1]
          /\ workers' = [workers EXCEPT ![c] =
                            Frame("returned", <<>>, "", <<<<"Wrote">> \o path>>)]
       \/ /\ Cardinality(Raised) < MaxFaults
          /\ fs' \in {fs, [fs EXCEPT ![path] = Partial]}
          /\ workers' = [workers EXCEPT ![c] = Frame("raised", <<>>, "OSError", <<>>)]
          /\ UNCHANGED writes
    /\ UNCHANGED <<spec, pc, si, doc, story, exc, dirExists, pre,
                   called, fn, specs, mi, stdout, wb>>

NextParallel ==
    \/ \E i \in 1..Len(specs) : worker_build_docx_walk(i)
    \/ \E i \in 1..Len(specs) : worker_build_docx_save(i)
    \/ \E i \in 1..Len(specs) : worker_build_pdf_walk(i)
    \/ \E i \in 1..Len(specs) : worker_build_pdf_build(i)

SpecParallel == InitParallel /\ [][NextParallel]_vars

\* what main's loop, run in order, writes for each call
Renders ==
    [c \in Calls |->
        LET s == build_specs[c[1]] IN
        IF c[2] = "docx"
        THEN docx_add_title(s.title, DOCX_SUBTITLE) \o DocxWalk(s.sections).elems
        ELSE PdfTitle(s.title) \o PdfWalk(s.sections).elems]

\* the path of each call, and the call of each path
CallPaths == [c \in Calls |-> CallPath(c)]
Owner == [p \in MainPaths \ {CalendarPath} |-> CHOOSE c \in Calls : CallPath(c) = p]

\* C14: the eight render calls write pairwise distinct paths, leave the DocSpec
\* list as it was, and a path changes only through its own call; so under every
\* schedule of the calls, once all have returned, each file is the one that
\* main's loop run in order writes.
C14_Independent ==
    /\ Cardinality({CallPaths[c] : c \in Calls}) = 8
    /\ specs = build_specs
    /\ \A c \in Calls :
          LET p == CallPaths[c] IN
          /\ workers[c].pc \in {"todo", "walked"} => fs[p] = pre[p]
          /\ workers[c].pc = "raised" => fs[p] \in {pre[p], Partial}
          /\ workers[c].pc = "returned" => fs[p] = Written(Renders[c]) /\ writes[p] = 1
    /\ (\A c \in Calls : workers[c].pc = "returned") =>
          fs = [p \in MainPaths |->
                  IF p = CalendarPath THEN pre[p] ELSE Written(Renders[Owner[p]])]

\* a schedule main's loop does not take: the last call of the loop has written
\* its file while the first is between its walk and its write and the second
\* has not started
C14_Witness ==
    /\ workers[<<Len(build_specs), "pdf">>].pc = "returned"
    /\ workers[<<1, "docx">>].pc = "walked"
    /\ workers[<<1, "pdf">>].pc = "todo"
    /\ fs[CallPaths[<<Len(build_specs), "pdf">>]].state = "written"

====
